---- MODULE Spec2Model ----
(***************************************************************************)
(* LINE chat relay (anonajung18/line-ai-bot).                              *)
(*                                                                         *)
(* The repository holds three versions of the same server:                 *)
(*   "v1"  src/index.js lines 1-101      history only; the signature check *)
(*                                       throws for every request          *)
(*   "v2"  src/unnamed/part_000          dailyLogs, cleared by the timer   *)
(*   "v3"  src/index.js lines 103-279    logs with a 7 day retention,      *)
(*                                       display names, 24 hour reports    *)
(* One variable, variant, fixes which version a behaviour runs.            *)
(*                                                                         *)
(* A webhook request is an async function: it runs without interruption    *)
(* from one await to the next, so every action below is the code between   *)
(* two awaits of one request (or of the timer callback).                   *)
(*                                                                         *)
(* Time is counted in hours since midnight UTC of 1 January 2024; the      *)
(* local time of the process, which Date.prototype.setDate works in, is    *)
(* UTC plus the offset of its zone.  Texts are sequences of UTF-16 code    *)
(* units, as the strings of the program are.                               *)
(***************************************************************************)
EXTENDS Integers, Sequences, FiniteSets, TLC

VARIABLES
    variant,      \* which version of the server runs
    sharedHistory,\* does the ChatSession of the SDK keep the array it is given?
    adminId,      \* process.env.ADMIN_USER_ID, or NoAdmin when unset
    now,          \* the clock, hours
    chatHistory,  \* Map userId -> array of turns (a function on the keys present)
    logs,         \* logs (v3) / dailyLogs (v2)
    nameCache,    \* Map userId -> display name (v3)
    handlers,     \* the webhook requests in flight, by slot
    timer,        \* the daily report timer and its callback
    evCount,      \* number of events received so far (numbers the reply tokens)
    faults,       \* number of failures of the collaborators so far   
    exchanges,    \* history of the run: per sender, every exchange completed, in order
    logged,       \* history of the run: every log entry appended, with its instant
    tz,           \* the time zone of the process (the TZ of its environment)
    built,        \* a call of buildReport: its arguments and its result
    split         \* a run of the chunk loop of pushToAdmin on one text

vars == <<variant, sharedHistory, adminId, now, chatHistory, logs, nameCache,
          handlers, timer, evCount, faults, exchanges, logged, tz, built, split>>

---------------------------------------------------------------------------
(* Bounds of the model *)

\* events in one webhook body
MaxBatch == 2
\* events received in one behaviour of Spec and of SpecHook
MaxEvents == 2
\* failures of the model, the profile lookup and the transport in one behaviour
\* of Spec and of SpecHook
MaxFaults == 2
\* events received, and failures, in one behaviour of SpecChat
MaxChatEvents == 12
MaxChatFaults == 1
\* entries handed to buildReport in one behaviour of SpecReport
MaxEntries == 3
\* pieces the text of one behaviour of SpecSplit is made of
MaxPieces == 3
\* the last hour of a behaviour of SpecClock
MaxClock == 75
\* events received, and failures, in one behaviour of SpecSeq
MaxSeqEvents == 26
MaxSeqFaults == 1

\* the webhook requests that may be in flight together, and the single request
\* of the behaviours that handle one request after the other
Slots == {1, 2}
Solo == {1}

(* Program constants *)

\* history.length > 20, history.splice(0, history.length - 20)
HISTORY_CAP == 20
\* 24 * 60 * 60 * 1000 ms
DAY == 24
\* 7 * 24 * 60 * 60 * 1000 ms
RETENTION == 168
\* next.setUTCHours(1, 0, 0, 0)
TRIGGER_HOUR == 1
\* timeZone: "Asia/Bangkok"
BANGKOK_OFFSET == 7
\* aiReply.slice(0, 80) in v3, aiReply.slice(0, 60) in v2
REPLY_CUT_V3 == 80
REPLY_CUT_V2 == 60

\* while (text.length > 4800), text.lastIndexOf(..., 4800)
MAX_LEN == 4800
\* text.slice(cut + 11): the length of "\n─────────\n"
SEP_LEN == 11

\* the zones the process may run in: UTC, and two zones west of Greenwich whose
\* clocks change at 02:00 local time in the night after the first day, forward
\* ("spring") or back ("autumn")
Zones == {"UTC", "spring", "autumn"}
OFFSET_STANDARD == 0 - 5
OFFSET_SUMMER == 0 - 4
SHIFT_AT == DAY + 7

Variants == {"v1", "v2", "v3"}
Users == {"U1", "U2"}
\* the value of a property that is missing: process.env.ADMIN_USER_ID when the
\* variable is not set, event.source.userId when the source carries no user
UNDEFINED == "undefined"
NoAdmin == UNDEFINED
NoUser == UNDEFINED
\* what event.source.userId may be
Senders == Users \cup {NoUser}

\* characters are UTF-16 code units, the unit of String.prototype.length
SPACE == 32
NL == 10
COLON == 58
CLOSE_PAREN == 41
\* "─"
CH_RULE == 9472
\* "0".."9" are CH_DIGIT .. CH_DIGIT + 9
CH_DIGIT == 48
\* "a", "A": the first character of an ordinary text, of an ordinary reply
CH_TEXT == 97
CH_REPLY == 65

\* the white space and line terminators that String.prototype.trim removes
WHITESPACE ==
    {9, 10, 11, 12, 13, 32, 160, 5760, 8232, 8233, 8239, 8287, 12288, 65279}
        \cup (8192..8202)

\* "รายงาน"
TRIGGER_PHRASE ==
    <<3619, 3634, 3618, 3591, 3634, 3609>>
\* the fixed apology of the catch block of index.js 1-101
APOLOGY_V1 ==
    <<3586, 3629, 3650, 3607, 3625, 3609, 3632, 3588, 3632, 32, 3648, 3585,
      3636, 3604, 3586, 3657, 3629, 3612, 3636, 3604, 3614, 3621, 3634, 3604,
      32, 3621, 3629, 3591, 3651, 3627, 3617, 3656, 3629, 3637, 3585, 3588,
      3619, 3633, 3657, 3591, 3652, 3604, 3657, 3648, 3621, 3618>>
\* the fixed apology of the catch block of part_000 and index.js 103-279
APOLOGY ==
    <<3586, 3629, 3650, 3607, 3625, 3609, 3632, 3588, 3619, 3633, 3610, 32,
      3648, 3585, 3636, 3604, 3586, 3657, 3629, 3612, 3636, 3604, 3614, 3621,
      3634, 3604, 32, 3621, 3629, 3591, 3651, 3627, 3617, 3656, 3629, 3637,
      3585, 3588, 3619, 3633, 3657, 3591, 3652, 3604, 3657, 3648, 3621, 3618,
      3588, 3619, 3633, 3610>>
\* "..."
ELLIPSIS == <<46, 46, 46>>
\* "\n─────────\n"
SEPARATOR == <<NL>> \o [i \in 1..(SEP_LEN - 2) |-> CH_RULE] \o <<NL>>

\* the pieces of the template literals of the reports
\* "📊 รายงานประจำวัน "
TITLE_DAILY ==
    <<55357, 56522, 32, 3619, 3634, 3618, 3591, 3634, 3609, 3611, 3619, 3632,
      3592, 3635, 3623, 3633, 3609, 32>>
\* "📊 รายงานย้อนหลัง 24 ชม. ("
TITLE_LAST24H ==
    <<55357, 56522, 32, 3619, 3634, 3618, 3591, 3634, 3609, 3618, 3657, 3629,
      3609, 3627, 3621, 3633, 3591, 32, 50, 52, 32, 3594, 3617, 46, 32, 40>>
\* "📊 รายงานวันนี้ "
TITLE_TODAY ==
    <<55357, 56522, 32, 3619, 3634, 3618, 3591, 3634, 3609, 3623, 3633, 3609,
      3609, 3637, 3657, 32>>
\* "ไม่มีการสนทนาครับ"
NOTICE ==
    <<3652, 3617, 3656, 3617, 3637, 3585, 3634, 3619, 3626, 3609, 3607, 3609,
      3634, 3588, 3619, 3633, 3610>>
\* "ไม่มีการสนทนาเมื่อวานครับ"
NOTICE_YESTERDAY ==
    <<3652, 3617, 3656, 3617, 3637, 3585, 3634, 3619, 3626, 3609, 3607, 3609,
      3634, 3648, 3617, 3639, 3656, 3629, 3623, 3634, 3609, 3588, 3619, 3633,
      3610>>
\* "ยังไม่มีการสนทนาครับ"
NOTICE_NOT_YET ==
    <<3618, 3633, 3591, 3652, 3617, 3656, 3617, 3637, 3585, 3634, 3619, 3626,
      3609, 3607, 3609, 3634, 3588, 3619, 3633, 3610>>
\* "👥 " and "👥 ผู้ใช้ "
HEAD_USERS == <<55357, 56421, 32>>
HEAD_USERS_V2 ==
    <<55357, 56421, 32, 3612, 3641, 3657, 3651, 3594, 3657, 32>>
\* " คน | 💬 "
HEAD_MID == <<32, 3588, 3609, 32, 124, 32, 55357, 56492, 32>>
\* " ข้อความ"
HEAD_END == <<32, 3586, 3657, 3629, 3588, 3623, 3634, 3617>>
\* "🕐 ", " · ", "💬 ", "🤖 "
BLOCK_TIME == <<55357, 56656, 32>>
BLOCK_NAME == <<32, 183, 32>>
BLOCK_TEXT == <<55357, 56492, 32>>
BLOCK_REPLY == <<55358, 56598, 32>>

\* the names of the months in th-TH
MONTHS ==
    <<<<3617, 3585, 3619, 3634, 3588, 3617>>,
      <<3585, 3640, 3617, 3616, 3634, 3614, 3633, 3609, 3608, 3660>>,
      <<3617, 3637, 3609, 3634, 3588, 3617>>,
      <<3648, 3617, 3625, 3634, 3618, 3609>>,
      <<3614, 3620, 3625, 3616, 3634, 3588, 3617>>,
      <<3617, 3636, 3606, 3640, 3609, 3634, 3618, 3609>>,
      <<3585, 3619, 3585, 3598, 3634, 3588, 3617>>,
      <<3626, 3636, 3591, 3627, 3634, 3588, 3617>>,
      <<3585, 3633, 3609, 3618, 3634, 3618, 3609>>,
      <<3605, 3640, 3621, 3634, 3588, 3617>>,
      <<3614, 3620, 3624, 3592, 3636, 3585, 3634, 3618, 3609>>,
      <<3608, 3633, 3609, 3623, 3634, 3588, 3617>>>>

\* hour 0 of the clock is 00:00 UTC on 1 January of EPOCH_YEAR; th-TH writes
\* years of the Buddhist era
EPOCH_YEAR == 2024
BUDDHIST_ERA == 543

\* the instants the clock takes: around the trigger hour of the first days, and
\* after more than the retention window
Instants == {0, TRIGGER_HOUR, DAY + TRIGGER_HOUR, RETENTION + DAY + 2}
StartInstants == {0, TRIGGER_HOUR}

---------------------------------------------------------------------------
(* Helpers on sequences *)

Min(a, b) == IF a < b THEN a ELSE b
Max(a, b) == IF a > b THEN a ELSE b

\* Array.prototype.slice(from) on the 0-based index from
DropFirst(s, n) == SubSeq(s, n + 1, Len(s))

\* String.prototype.slice(0, n)
Slice(s, n) == SubSeq(s, 1, Min(n, Len(s)))

RECURSIVE TrimStart(_)
TrimStart(s) ==
    IF s # <<>> /\ Head(s) \in WHITESPACE THEN TrimStart(Tail(s)) ELSE s

RECURSIVE TrimEnd(_)
TrimEnd(s) ==
    IF s # <<>> /\ s[Len(s)] \in WHITESPACE
    THEN TrimEnd(SubSeq(s, 1, Len(s) - 1))
    ELSE s

\* String.prototype.trim()
Trim(s) == TrimEnd(TrimStart(s))

---------------------------------------------------------------------------
(* Conversation history *)

Turn(role, text) == [role |-> role, text |-> text]

\* getHistory(userId): the Map after the call; the array returned is Map[userId]
getHistory(map, userId) ==
    IF userId \in DOMAIN map THEN map ELSE map @@ (userId :> <<>>)

\* the array getHistory would return, without creating the key
HistoryOf(userId) ==
    IF userId \in DOMAIN chatHistory THEN chatHistory[userId] ELSE <<>>

\* a history that is cut before the two turns are pushed
AppendExchangeCutFirst(history, userText, aiReply) ==
    (IF Len(history) > HISTORY_CAP
     THEN DropFirst(history, Len(history) - HISTORY_CAP)
     ELSE history) \o <<Turn("user", userText), Turn("model", aiReply)>>

\* a history that loses one turn, not the excess, when it is too long
AppendExchangeShiftOne(history, userText, aiReply) ==
    LET pushed == history \o <<Turn("user", userText), Turn("model", aiReply)>>
    IN  IF Len(pushed) > HISTORY_CAP THEN Tail(pushed) ELSE pushed

\* history.push(user turn); history.push(model turn);
\* if (history.length > 20) history.splice(0, history.length - 20)
AppendExchange(history, userText, aiReply) ==
    LET pushed == history \o <<Turn("user", userText), Turn("model", aiReply)>>
    IN  IF Len(pushed) > HISTORY_CAP
        THEN DropFirst(pushed, Len(pushed) - HISTORY_CAP)
        ELSE pushed

---------------------------------------------------------------------------
(* Activity log and reports *)

\* String(n): the decimal digits of a number that is not negative
RECURSIVE Digits(_)
Digits(n) ==
    IF n < 10 THEN <<CH_DIGIT + n>>
    ELSE Digits(n \div 10) \o <<CH_DIGIT + (n % 10)>>

\* a field written with "2-digit"
TwoDigits(n) == IF n < 10 THEN <<CH_DIGIT>> \o Digits(n) ELSE Digits(n)

\* the time of day as th-TH writes it: "HH:MM" with the options of formatTime
\* (index.js 153), "HH:MM:SS" without options (part_000 22); the clock of the
\* model stands on the hour
TimeChars(hour, withSeconds) ==
    TwoDigits(hour) \o <<COLON>> \o TwoDigits(0)
        \o (IF withSeconds THEN <<COLON>> \o TwoDigits(0) ELSE <<>>)

IsLeap(y) == (y % 4 = 0 /\ y % 100 # 0) \/ y % 400 = 0
DaysInMonth(y, m) ==
    IF m = 2 THEN (IF IsLeap(y) THEN 29 ELSE 28)
    ELSE IF m \in {4, 6, 9, 11} THEN 30 ELSE 31

RECURSIVE CalendarFrom(_, _, _)
\* the calendar date d days after the first day of month m of year y
CalendarFrom(d, y, m) ==
    IF d < DaysInMonth(y, m) THEN [year |-> y, month |-> m, day |-> d + 1]
    ELSE IF m = 12 THEN CalendarFrom(d - DaysInMonth(y, m), y + 1, 1)
    ELSE CalendarFrom(d - DaysInMonth(y, m), y, m + 1)

\* the day as th-TH writes it with {day: "numeric", month: "long",
\* year: "numeric"}: "1 มกราคม 2567"
DateChars(day) ==
    LET c == CalendarFrom(day, EPOCH_YEAR, 1)
    IN  Digits(c.day) \o <<SPACE>> \o MONTHS[c.month] \o <<SPACE>>
            \o Digits(c.year + BUDDHIST_ERA)

\* the hour of the day and the day since the epoch in Asia/Bangkok
BangkokHour(t) == (t + BANGKOK_OFFSET) % DAY
BangkokDay(t) == (t + BANGKOK_OFFSET) \div DAY

\* formatTime(date) of index.js: toLocaleTimeString("th-TH", {timeZone:
\* "Asia/Bangkok", hour: "2-digit", minute: "2-digit"})
formatTime(t) == TimeChars(BangkokHour(t), FALSE)

\* new Date().toLocaleTimeString("th-TH", {timeZone: "Asia/Bangkok"}) of part_000
formatTimeV2(t) == TimeChars(BangkokHour(t), TRUE)

\* toLocaleDateString("th-TH", {timeZone: "Asia/Bangkok", day: "numeric",
\* month: "long", year: "numeric"})
formatDate(t) == DateChars(BangkokDay(t))

\* aiReply.slice(0, cut) + (aiReply.length > cut ? "..." : "")
Truncate(aiReply, cut) ==
    Slice(aiReply, cut) \o (IF Len(aiReply) > cut THEN ELLIPSIS ELSE <<>>)

\* a log that is never trimmed
EvictNothing(log, limit) == log

RECURSIVE EvictOld(_, _)
\* while (logs.length > 0 && logs[0].timestamp.getTime() < limit) logs.shift()
EvictOld(log, limit) ==
    IF Len(log) > 0 /\ log[1].timestamp < limit
    THEN EvictOld(Tail(log), limit)
    ELSE log

\* addLog of v3: push the entry stamped with the current time, then drop the
\* entries at the front that are older than 7 days
addLogV3(log, userId, displayName, userText, aiReply) ==
    EvictOld(Append(log, [timestamp   |-> now,
                          userId      |-> userId,
                          displayName |-> displayName,
                          userText    |-> userText,
                          aiReply     |-> Truncate(aiReply, REPLY_CUT_V3)]),
             now - RETENTION)

\* addLog of v2: push the entry with the formatted time of day
addLogV2(log, userId, userText, aiReply) ==
    Append(log, [time     |-> formatTimeV2(now),
                 userId   |-> userId,
                 userText |-> userText,
                 aiReply  |-> Truncate(aiReply, REPLY_CUT_V2)])

\* a filter that leaves out the entry logged exactly at since
EntriesSinceStrict(log, since) == SelectSeq(log, LAMBDA l : l.timestamp > since)

\* logs.filter((l) => l.timestamp >= since)
EntriesSince(log, since) == SelectSeq(log, LAMBDA l : l.timestamp >= since)

\* a count of the entries, not of the users
UserCountOfEntries(entries) == Len(entries)

\* new Set(entries.map((l) => l.userId)).size
UserCount(entries) == Cardinality({entries[i].userId : i \in DOMAIN entries})

NoReport == [title |-> [kind |-> "none", date |-> <<>>], empty |-> TRUE,
             userCount |-> 0, count |-> 0, blocks |-> <<>>]

\* buildReport(filteredLogs, title) of v3: the title and the no-conversation
\* notice, or the title, the two counts and one block per entry
buildReport(filteredLogs, title) ==
    IF Len(filteredLogs) = 0
    THEN [title |-> title, empty |-> TRUE, userCount |-> 0, count |-> 0,
          blocks |-> <<>>]
    ELSE [title |-> title, empty |-> FALSE,
          userCount |-> UserCount(filteredLogs),
          count |-> Len(filteredLogs),
          blocks |-> [i \in DOMAIN filteredLogs |->
                        [time        |-> formatTime(filteredLogs[i].timestamp),
                         displayName |-> filteredLogs[i].displayName,
                         userText    |-> filteredLogs[i].userText,
                         aiReply     |-> filteredLogs[i].aiReply]]]

\* the report text of v2, built in line from the whole of dailyLogs
buildReportV2(dailyLogs, title) ==
    IF Len(dailyLogs) = 0
    THEN [title |-> title, empty |-> TRUE, userCount |-> 0, count |-> 0,
          blocks |-> <<>>]
    ELSE [title |-> title, empty |-> FALSE,
          userCount |-> UserCount(dailyLogs),
          count |-> Len(dailyLogs),
          blocks |-> [i \in DOMAIN dailyLogs |->
                        [time     |-> dailyLogs[i].time,
                         userText |-> dailyLogs[i].userText,
                         aiReply  |-> dailyLogs[i].aiReply]]]

Title(kind) == [kind |-> kind, date |-> formatDate(now)]

\* the report the admin command replies with
AdminReport ==
    IF variant = "v3"
    THEN buildReport(EntriesSince(logs, now - DAY), Title("last24h"))
    ELSE buildReportV2(logs, Title("today"))

\* the report the timer callback pushes
DailyReport ==
    IF variant = "v3"
    THEN buildReport(EntriesSince(logs, now - DAY), Title("daily"))
    ELSE buildReportV2(logs, Title("daily"))

\* the display names of the model as strings; "" is the missing name
NameChars(name) ==
    CASE name = "U1"  -> <<85, 49>>
      [] name = "U2"  -> <<85, 50>>
      [] name = UNDEFINED -> <<117, 110, 100, 101, 102, 105, 110, 101, 100>>
      [] name = "Nok" -> <<78, 111, 107>>
      [] OTHER        -> <<>>

\* the title handed to buildReport, or written in line by part_000
TitleChars(title) ==
    CASE title.kind = "daily"   -> TITLE_DAILY \o title.date
      [] title.kind = "last24h" -> TITLE_LAST24H \o title.date
                                       \o <<CLOSE_PAREN>>
      [] title.kind = "today"   -> TITLE_TODAY \o title.date
      [] OTHER                  -> <<>>

\* the notice of a report without entries
NoticeChars(title) ==
    IF variant = "v3" THEN NOTICE
    ELSE IF title.kind = "daily" THEN NOTICE_YESTERDAY ELSE NOTICE_NOT_YET

\* one entry: `🕐 ${time} · ${displayName}\n💬 ${userText}\n🤖 ${aiReply}` in
\* index.js, `🕐 ${time}\n💬 ${userText}\n🤖 ${aiReply}` in part_000
BlockChars(b) ==
    IF "displayName" \in DOMAIN b
    THEN BLOCK_TIME \o b.time
            \o BLOCK_NAME \o NameChars(b.displayName)
            \o <<NL>> \o BLOCK_TEXT \o b.userText
            \o <<NL>> \o BLOCK_REPLY \o b.aiReply
    ELSE BLOCK_TIME \o b.time
            \o <<NL>> \o BLOCK_TEXT \o b.userText
            \o <<NL>> \o BLOCK_REPLY \o b.aiReply

RECURSIVE JoinBlocks(_)
\* lines.join("\n─────────\n")
JoinBlocks(blocks) ==
    IF Len(blocks) = 0 THEN <<>>
    ELSE IF Len(blocks) = 1 THEN BlockChars(blocks[1])
    ELSE BlockChars(blocks[1]) \o SEPARATOR \o JoinBlocks(Tail(blocks))

\* the string of a report, as the template literals write it
Render(report) ==
    IF report.empty
    THEN TitleChars(report.title) \o <<NL, NL>> \o NoticeChars(report.title)
    ELSE TitleChars(report.title) \o <<NL>>
            \o (IF variant = "v3" THEN HEAD_USERS ELSE HEAD_USERS_V2)
            \o Digits(report.userCount) \o HEAD_MID
            \o Digits(report.count) \o HEAD_END \o <<NL, NL>>
            \o JoinBlocks(report.blocks)

\* report.slice(0, 4800)
ReplySlice(text) == Slice(text, MAX_LEN)

\* the text the admin command replies with: index.js 240 sends
\* report.slice(0, 4800), part_000 104 sends the whole report
ReplyText(report) ==
    IF variant = "v3" THEN ReplySlice(Render(report)) ELSE Render(report)

---------------------------------------------------------------------------
(* Inbound events *)

NoEvent == [type |-> "none", mtype |-> "none", userId |-> "", text |-> <<>>,
            replyToken |-> 0]

TextEvent(u, t, n) ==
    [type |-> "message", mtype |-> "text", userId |-> u, text |-> t, replyToken |-> n]
ImageEvent(u, n) ==
    [type |-> "message", mtype |-> "image", userId |-> u, text |-> <<>>, replyToken |-> n]
FollowEvent(u, n) ==
    [type |-> "follow", mtype |-> "none", userId |-> u, text |-> <<>>, replyToken |-> n]

\* an ordinary text, and a text nobody sent before: the n-th event's own
PlainText == <<CH_TEXT>>
FreshText(n) == <<CH_TEXT + n>>

\* the events the n-th event of a behaviour of SpecHook may be: from U1 the
\* trigger phrase, the phrase with a blank before it and an ordinary text; from
\* U2 the trigger phrase, an image and an event that is no message; and the
\* trigger phrase in an event whose source carries no userId
EventsFor(n) ==
    {TextEvent("U1", t, n) : t \in {TRIGGER_PHRASE, <<SPACE>> \o TRIGGER_PHRASE, PlainText}}
        \cup {TextEvent("U2", TRIGGER_PHRASE, n)}
        \cup {ImageEvent("U2", n), FollowEvent("U2", n)}
        \cup {TextEvent(NoUser, TRIGGER_PHRASE, n)}

RECURSIVE BodiesOf(_, _)
\* the webhook bodies of exactly k events, numbered from n + 1
BodiesOf(n, k) ==
    IF k = 0 THEN {<<>>}
    ELSE {Append(b, e) : b \in BodiesOf(n, k - 1), e \in EventsFor(n + k)}

\* the webhook bodies of 1..MaxBatch events, numbered from n + 1, of at most
\* room events
Batches(n, room) == UNION {BodiesOf(n, k) : k \in 1..Min(MaxBatch, room)}

\* the texts the model may answer with: an ordinary reply, and a reply nobody
\* got before
PlainReply == <<CH_REPLY>>
FreshReply(n) == <<CH_REPLY + n>>

\* the display names the profile lookup may return; "" stands for a response
\* without displayName
ProfileNames == {"", "Nok"}

---------------------------------------------------------------------------
(* Webhook requests *)

Msg(text) == [kind |-> "text", text |-> text, report |-> NoReport]
\* a reply that carries a report: text is the string sent, report the counts
\* and blocks it was written from
MsgReport(report) ==
    [kind |-> "report", text |-> ReplyText(report), report |-> report]
NoMsg == [kind |-> "none", text |-> <<>>, report |-> NoReport]

Idle == [pc |-> "idle", events |-> <<>>, cur |-> NoEvent, prev |-> NoEvent,
         userText |-> <<>>,
         seed |-> <<>>, aiReply |-> <<>>, displayName |-> "", out |-> NoMsg,
         call |-> "none", result |-> "none"]

\* is this the admin command?  v3: isAdmin && userText === "รายงาน";
\* v2: userText === "รายงาน" && userId === process.env.ADMIN_USER_ID; v1 has none
IsAdminCommand(userId, userText) ==
    /\ variant # "v1"
    /\ userId = adminId
    /\ userText = TRIGGER_PHRASE

\* const userText = event.message.text.trim() in v3, event.message.text before
UserTextOf(e) == IF variant = "v3" THEN Trim(e.text) ELSE e.text

\* one turn of the for loop on a text event, up to its first await: the admin
\* command builds the report and replies; any other text gets the history and
\* calls the model.  prev is the event the loop skipped just before, if any.
BeginEvent(e, prev, rest, map) ==
    LET userText == UserTextOf(e)
        withKey  == getHistory(map, e.userId)
    IN  IF IsAdminCommand(e.userId, userText)
        THEN [h   |-> [Idle EXCEPT !.pc = "await_report_reply", !.events = rest,
                                   !.cur = e, !.prev = prev, !.userText = userText,
                                   !.out = MsgReport(AdminReport)],
              map |-> map]
        ELSE [h   |-> [Idle EXCEPT !.pc = "await_model", !.events = rest,
                                   !.cur = e, !.prev = prev, !.userText = userText,
                                   !.seed = withKey[e.userId], !.call = "chat"],
              map |-> withKey]

\* if (event.type !== "message" || event.message.type !== "text") continue
IsSkipped(e) == e.type # "message" \/ e.mtype # "text"

RECURSIVE Loop(_, _, _)
\* the for loop from its head to the next await: events that are not text
\* messages are skipped; when none is left the request ends
Loop(events, prev, map) ==
    IF events = <<>>
    THEN [h |-> Idle, map |-> map]
    ELSE IF IsSkipped(Head(events))
         THEN Loop(Tail(events), Head(events), map)
         ELSE BeginEvent(Head(events), prev, Tail(events), map)

StartNext(events, map) == Loop(events, NoEvent, map)

FreeSlots == {s \in Slots : handlers[s].pc \in {"idle", "rejected"}}

\* app.post("/webhook").  index.js 1-101: express.json() of line 6 has parsed
\* the body before the parser of lines 37-43 runs, so its verify hook never
\* stores req.rawBody; verifySignature(undefined, signature) throws in
\* .update(rawBody) whatever the signature is: no status is sent, no event is
\* looked at and the promise of the handler is rejected.  part_000 and
\* index.js 103-279 check no signature: 200 is sent and the loop runs to its
\* first await.
Receive(s, batch, sigOk) ==
    /\ s \in FreeSlots
    /\ \A f \in FreeSlots : s <= f
    /\ variant = "v1" \/ sigOk
    /\ evCount' = evCount + Len(batch)
    /\ IF variant = "v1"
       THEN /\ handlers' = [handlers EXCEPT ![s] =
                              [Idle EXCEPT !.pc = "rejected", !.events = batch]]
            /\ UNCHANGED chatHistory
       ELSE LET r == StartNext(batch, chatHistory)
            IN  /\ handlers' = [handlers EXCEPT ![s] = r.h]
                /\ chatHistory' = r.map
    /\ UNCHANGED <<variant, sharedHistory, adminId, tz, built, split, now, logs, nameCache, timer,
                   faults, exchanges, logged>>

\* the state of a request after the lines that follow the history update
\* (v1: reply; v2: addLog, reply; v3: getDisplayName up to its await)
AfterExchange(h, aiReply) ==
    LET u == h.cur.userId
    IN  CASE variant = "v1" ->
               [h   |-> [h EXCEPT !.pc = "await_reply", !.aiReply = aiReply,
                                  !.result = "ok", !.out = Msg(aiReply)],
                log |-> logs]
          [] variant = "v2" ->
               [h   |-> [h EXCEPT !.pc = "await_reply", !.aiReply = aiReply,
                                  !.result = "ok", !.out = Msg(aiReply)],
                log |-> addLogV2(logs, u, h.userText, aiReply)]
          [] variant = "v3" ->
               [h   |-> IF u \in DOMAIN nameCache
                        THEN [h EXCEPT !.pc = "await_name", !.aiReply = aiReply,
                                       !.result = "ok",
                                       !.displayName = nameCache[u]]
                        ELSE [h EXCEPT !.pc = "await_profile", !.aiReply = aiReply,
                                       !.result = "ok"],
                log |-> logs]

\* the catch block: console.error, then replyToLine(replyToken, apology)
\* the apology of the catch block of the running version
Apology == IF variant = "v1" THEN APOLOGY_V1 ELSE APOLOGY

Catch(h) == [h EXCEPT !.pc = "await_apology", !.out = Msg(Apology)]

\* model.startChat({ history }) hands the stored array to the ChatSession of
\* @google/generative-ai.  A session that keeps the array itself pushes the
\* user turn and the model's turn onto it when sendMessage is fulfilled; a
\* session that copies the array leaves it alone.
SessionPush(history, userText, aiReply) ==
    IF sharedHistory
    THEN history \o <<Turn("user", userText), Turn("model", aiReply)>>
    ELSE history

\* a fulfilled chat.sendMessage and the try block after it: the session has
\* pushed or not, then the handler pushes the two turns onto the user's array
\* and cuts the array to its last 20 turns, and the request goes on to its next
\* await.  No other request runs between the push of the session and the
\* lines of the handler: both run in the microtasks of one response.
ModelFulfilled(s, aiReply) ==
    LET h == handlers[s]
        u == h.cur.userId
        after == AfterExchange(h, aiReply)
    IN  /\ chatHistory' = [chatHistory EXCEPT
                             ![u] = AppendExchange(
                                        SessionPush(@, h.userText, aiReply),
                                        h.userText, aiReply)]
        /\ handlers' = [handlers EXCEPT ![s] = after.h]
        /\ logs' = after.log
        /\ exchanges' = [exchanges EXCEPT
                           ![u] = Append(@, [user |-> h.userText, model |-> aiReply])]
        /\ logged' = IF variant = "v2"
                     THEN Append(logged, [at |-> now, entry |-> logs'[Len(logs')]])
                     ELSE logged
        /\ UNCHANGED faults

\* a catch block that records the failed turn, with the apology as the reply
ModelRejectedRecorded(s) ==
    LET h == handlers[s]
        u == h.cur.userId
    IN  /\ handlers' = [handlers EXCEPT ![s] = Catch([@ EXCEPT !.result = "error"])]
        /\ faults' = faults + 1
        /\ chatHistory' = [chatHistory EXCEPT
                             ![u] = AppendExchange(@, h.userText, Apology)]
        /\ UNCHANGED <<logs, exchanges, logged>>

\* a rejected chat.sendMessage: control goes to the catch block, which replies
\* with the apology; nothing else is written
ModelRejected(s) ==
    /\ handlers' = [handlers EXCEPT ![s] = Catch([@ EXCEPT !.result = "error"])]
    /\ faults' = faults + 1
    /\ UNCHANGED <<chatHistory, logs, exchanges, logged>>

\* await chat.sendMessage(userText) settles
ModelReturn(s, ok, aiReply) ==
    /\ handlers[s].pc = "await_model"
    /\ IF ok THEN ModelFulfilled(s, aiReply) ELSE ModelRejected(s)
    /\ UNCHANGED <<variant, sharedHistory, adminId, tz, built, split, now, nameCache, timer, evCount>>

\* getDisplayName past its fetch: a response is cached as
\* data.displayName || userId and returned; a failure returns userId, uncached
ProfileReturn(s, ok, name) ==
    LET h == handlers[s]
        u == h.cur.userId
        resolved == IF name = "" THEN u ELSE name
    IN  /\ h.pc = "await_profile"
        /\ IF ok
           THEN /\ nameCache' = IF u \in DOMAIN nameCache
                                THEN [nameCache EXCEPT ![u] = resolved]
                                ELSE nameCache @@ (u :> resolved)
                /\ handlers' = [handlers EXCEPT ![s] =
                                  [h EXCEPT !.pc = "await_name",
                                            !.displayName = resolved]]
                /\ UNCHANGED faults
           ELSE /\ handlers' = [handlers EXCEPT ![s] =
                                  [h EXCEPT !.pc = "await_name", !.displayName = u]]
                /\ faults' = faults + 1
                /\ UNCHANGED nameCache
        /\ UNCHANGED <<variant, sharedHistory, adminId, tz, built, split, now, chatHistory, logs, timer, evCount,
                       exchanges, logged>>

\* const displayName = await getDisplayName(userId) resumes:
\* addLog(userId, displayName, userText, aiReply); replyToLine(replyToken, aiReply)
NameReturn(s) ==
    LET h == handlers[s]
    IN  /\ h.pc = "await_name"
        /\ logs' = addLogV3(logs, h.cur.userId, h.displayName, h.userText, h.aiReply)
        /\ logged' = Append(logged, [at |-> now, entry |-> logs'[Len(logs')]])
        /\ handlers' = [handlers EXCEPT ![s] =
                          [h EXCEPT !.pc = "await_reply", !.out = Msg(h.aiReply)]]
        /\ UNCHANGED <<variant, sharedHistory, adminId, tz, built, split, now, chatHistory, nameCache, timer,
                       evCount, faults, exchanges>>

\* the end of one turn of the loop: the loop goes on with the events left
Continue(s) ==
    LET r == StartNext(handlers[s].events, chatHistory)
    IN  /\ handlers' = [handlers EXCEPT ![s] = r.h]
        /\ chatHistory' = r.map

\* an error that leaves the async handler: the promise of the request is
\* rejected and the events left in the body are never looked at
Reject(s) ==
    /\ handlers' = [handlers EXCEPT ![s] =
                      [Idle EXCEPT !.pc = "rejected", !.events = handlers[s].events]]
    /\ UNCHANGED chatHistory

\* await replyToLine(replyToken, aiReply) inside the try block settles
ReplyReturn(s, ok) ==
    /\ handlers[s].pc = "await_reply"
    /\ IF ok
       THEN Continue(s) /\ UNCHANGED faults
       ELSE /\ handlers' = [handlers EXCEPT ![s] = Catch(@)]
            /\ faults' = faults + 1
            /\ UNCHANGED chatHistory
    /\ UNCHANGED <<variant, sharedHistory, adminId, tz, built, split, now, logs, nameCache, timer, evCount,
                   exchanges, logged>>

\* await replyToLine(replyToken, apology) inside the catch block settles
ApologyReturn(s, ok) ==
    /\ handlers[s].pc = "await_apology"
    /\ IF ok
       THEN Continue(s) /\ UNCHANGED faults
       ELSE Reject(s) /\ faults' = faults + 1
    /\ UNCHANGED <<variant, sharedHistory, adminId, tz, built, split, now, logs, nameCache, timer, evCount,
                   exchanges, logged>>

\* await replyToLine(replyToken, report) of the admin command settles; the call
\* is outside the try block
ReportReplyReturn(s, ok) ==
    /\ handlers[s].pc = "await_report_reply"
    /\ IF ok
       THEN Continue(s) /\ UNCHANGED faults
       ELSE Reject(s) /\ faults' = faults + 1
    /\ UNCHANGED <<variant, sharedHistory, adminId, tz, built, split, now, logs, nameCache, timer, evCount,
                   exchanges, logged>>

---------------------------------------------------------------------------
(* Daily report timer *)

\* the offset of local time from UTC at instant t, in the zone of the process:
\* none in "UTC"; in "spring" the clocks go forward at SHIFT_AT, in "autumn"
\* they go back
LocalOffset(z, t) ==
    CASE z = "UTC"    -> 0
      [] z = "spring" -> IF t < SHIFT_AT THEN OFFSET_STANDARD ELSE OFFSET_SUMMER
      [] z = "autumn" -> IF t < SHIFT_AT THEN OFFSET_SUMMER ELSE OFFSET_STANDARD

\* the instant whose local time is w (a local time that exists once)
FromLocal(z, w) ==
    IF LocalOffset(z, w - OFFSET_STANDARD) = OFFSET_STANDARD
    THEN w - OFFSET_STANDARD
    ELSE IF z = "UTC" THEN w ELSE w - OFFSET_SUMMER

\* next.setDate(next.getDate() + 1): the same local time on the next local day
setDatePlusOne(z, t) == FromLocal(z, t + LocalOffset(z, t) + DAY)

\* scheduleDailyReport: next.setUTCHours(1, 0, 0, 0) is 01:00 UTC of the UTC
\* day of now; if (next <= now) next is moved by setDate
NextTrigger(t) ==
    LET today == (t \div DAY) * DAY + TRIGGER_HOUR
    IN  IF today <= t THEN setDatePlusOne(tz, today) ELSE today

\* text.lastIndexOf("\n─────────\n", from): the greatest index (from 0) not
\* above from at which the separator starts, -1 when there is none
IsSeparatorAt(text, i) ==
    /\ i >= 0
    /\ i + SEP_LEN <= Len(text)
    /\ text[i + 1] = NL
    /\ text[i + SEP_LEN] = NL
    /\ \A j \in 2..(SEP_LEN - 1) : text[i + j] = CH_RULE
lastIndexOf(text, from) ==
    LET hits == {i \in 0..Min(from, Len(text) - SEP_LEN) : IsSeparatorAt(text, i)}
    IN  IF hits = {} THEN 0 - 1 ELSE CHOOSE i \in hits : \A k \in hits : k <= i

\* one turn of the while loop of pushToAdmin with a cut one character late
LoopTurnCutLate(text) ==
    LET cut == lastIndexOf(text, MAX_LEN)
    IN  [chunk |-> Slice(text, IF cut > 0 THEN cut ELSE MAX_LEN + 1),
         rest  |-> DropFirst(text, IF cut > 0 THEN cut + SEP_LEN ELSE MAX_LEN + 1),
         atSeparator |-> cut > 0]

\* one turn of the while loop that skips one character less than the separator
LoopTurnShortSkip(text) ==
    LET cut == lastIndexOf(text, MAX_LEN)
    IN  [chunk |-> Slice(text, IF cut > 0 THEN cut ELSE MAX_LEN),
         rest  |-> DropFirst(text, IF cut > 0 THEN cut + SEP_LEN - 1 ELSE MAX_LEN),
         atSeparator |-> cut > 0]

\* one turn of the while loop of pushToAdmin: the chunk pushed and the text left
LoopTurn(text) ==
    LET cut == lastIndexOf(text, MAX_LEN)
    IN  [chunk |-> Slice(text, IF cut > 0 THEN cut ELSE MAX_LEN),
         rest  |-> DropFirst(text, IF cut > 0 THEN cut + SEP_LEN ELSE MAX_LEN),
         atSeparator |-> cut > 0]

RECURSIVE ChunkLoop(_)
\* while (text.length > 4800) { ... }; chunks.push(text)
ChunkLoop(text) ==
    IF Len(text) > MAX_LEN
    THEN <<LoopTurn(text).chunk>> \o ChunkLoop(LoopTurn(text).rest)
    ELSE <<text>>

\* the messages pushToAdmin sends for a report: the chunks of its text in
\* index.js; part_000 sends the text whole
Chunks(report) ==
    IF variant = "v3" THEN ChunkLoop(Render(report)) ELSE <<Render(report)>>

NoTimer == [state |-> "none", next |-> 0, inflight |-> FALSE, pending |-> <<>>,
            report |-> NoReport, armedAt |-> 0, timeouts |-> 0]

\* scheduleDailyReport() called at instant t with tm the timer so far:
\* setTimeout(callback, next - now) adds a timeout
Arm(tm, t) == [tm EXCEPT !.state = "armed", !.next = NextTrigger(t),
                         !.armedAt = t, !.timeouts = @ + 1]

\* the call of scheduleDailyReport() on the last line of the module
Armed(t) == Arm(NoTimer, t)

\* a callback that calls scheduleDailyReport() twice
RescheduleTwice(tm) ==
    /\ timer' = Arm(Arm(tm, now), now)
    /\ logs' = IF variant = "v2" THEN <<>> ELSE logs

\* the lines after await pushToAdmin(report): v2 empties dailyLogs; both call
\* scheduleDailyReport()
Reschedule(tm) ==
    /\ timer' = Arm(tm, now)
    /\ logs' = IF variant = "v2" THEN <<>> ELSE logs

\* the timer callback up to its first fetch: the timeout is spent, the report
\* of the day is built and pushToAdmin is called.  With no admin configured
\* pushToAdmin returns at once and the callback runs to its end without giving
\* way to a request; otherwise the first chunk is sent
TimerFire ==
    /\ timer.state = "armed"
    /\ now >= timer.next
    /\ LET fired == [timer EXCEPT !.timeouts = @ - 1, !.report = DailyReport,
                                  !.pending = <<>>, !.inflight = FALSE]
       IN  IF adminId = NoAdmin
           THEN Reschedule(fired)
           ELSE /\ timer' = [fired EXCEPT !.state = "pushing", !.inflight = TRUE,
                                          !.pending = Tail(Chunks(DailyReport))]
                /\ UNCHANGED logs
    /\ UNCHANGED <<variant, sharedHistory, adminId, tz, built, split, now, chatHistory, nameCache,
                   handlers, evCount, faults, exchanges, logged>>

\* a fetch of pushToAdmin settles.  Fulfilled: the next chunk is sent, or the
\* callback goes on.  Rejected: the rejection leaves pushToAdmin and the
\* callback, and the lines after the await never run.
PushReturn(ok) ==
    /\ timer.state = "pushing"
    /\ timer.inflight
    /\ IF ~ok
       THEN /\ timer' = [timer EXCEPT !.state = "stopped", !.inflight = FALSE,
                                      !.pending = <<>>]
            /\ faults' = faults + 1
            /\ UNCHANGED logs
       ELSE /\ IF timer.pending # <<>>
               THEN /\ timer' = [timer EXCEPT !.pending = Tail(@)]
                    /\ UNCHANGED logs
               ELSE Reschedule([timer EXCEPT !.inflight = FALSE])
            /\ UNCHANGED faults
    /\ UNCHANGED <<variant, sharedHistory, adminId, tz, built, split, now, chatHistory, nameCache,
                   handlers, evCount, exchanges, logged>>

\* the clock moves on
Tick(t) ==
    /\ t > now
    /\ now' = t
    /\ UNCHANGED <<variant, sharedHistory, adminId, tz, built, split, chatHistory, logs, nameCache, handlers, timer,
                   evCount, faults, exchanges, logged>>

---------------------------------------------------------------------------
(* The server *)

EmptyMap == [u \in {} |-> <<>>]

\* no call of buildReport, no run of the chunk loop
NoBuilt == [pc |-> "none", entries |-> <<>>, report |-> NoReport]
NoSplit == [pc |-> "none", input |-> <<>>, text |-> <<>>, chunks |-> <<>>,
            atSeparator |-> <<>>]

\* the program once the module has run: the collections are empty and
\* scheduleDailyReport() has armed the first timer (v2, v3)
Program(z, v, a, t) ==
    /\ tz = z
    /\ variant = v
    /\ adminId = a
    /\ now = t
    /\ chatHistory = EmptyMap
    /\ logs = <<>>
    /\ nameCache = EmptyMap
    /\ handlers = [s \in Slots |-> Idle]
    /\ timer = IF v = "v1" THEN NoTimer ELSE Armed(t)
    /\ evCount = 0
    /\ faults = 0
    /\ exchanges = [u \in Senders |-> <<>>]
    /\ logged = <<>>

\* the server started in zone z
StartIn(z, v, a, t) == Program(z, v, a, t) /\ built = NoBuilt /\ split = NoSplit

\* the process of the webhook specifications runs in UTC, with an SDK of
\* either kind
Start(v, a, t) == StartIn("UTC", v, a, t) /\ sharedHistory \in BOOLEAN

\* a collaborator may fail while the run's budget of failures lasts
MayFail(ok, budget) == ok \/ faults < budget

(* Spec: the whole server, one request at a time next to the clock and the    *)
(* timer; user U1 sends ordinary texts and the trigger phrase.                *)

Init == \E v \in Variants, a \in {"U1", NoAdmin}, t \in StartInstants : Start(v, a, t)

SpecBodies(n) ==
    {<<TextEvent("U1", t, n + 1)>> : t \in {PlainText, TRIGGER_PHRASE}}

Next ==
    \/ \E s \in Solo, sigOk \in BOOLEAN : \E batch \in SpecBodies(evCount) :
          evCount + Len(batch) <= MaxEvents
              /\ MayFail(sigOk, MaxFaults) /\ Receive(s, batch, sigOk)
    \/ \E s \in Solo, ok \in BOOLEAN :
          MayFail(ok, MaxFaults) /\ ModelReturn(s, ok, PlainReply)
    \/ \E s \in Solo, ok \in BOOLEAN, name \in ProfileNames :
          MayFail(ok, MaxFaults) /\ ProfileReturn(s, ok, name)
    \/ \E s \in Solo : NameReturn(s)
    \/ \E s \in Solo, ok \in BOOLEAN : MayFail(ok, MaxFaults) /\ ReplyReturn(s, ok)
    \/ \E s \in Solo, ok \in BOOLEAN : MayFail(ok, MaxFaults) /\ ApologyReturn(s, ok)
    \/ \E s \in Solo, ok \in BOOLEAN : MayFail(ok, MaxFaults) /\ ReportReplyReturn(s, ok)
    \/ TimerFire
    \/ \E ok \in BOOLEAN : MayFail(ok, MaxFaults) /\ PushReturn(ok)
    \/ \E t \in Instants : Tick(t)

Spec == Init /\ [][Next]_vars

(* SpecHook: the webhook alone, two requests in flight, every kind of event   *)
(* and bodies of several events; the clock stands still and the profile       *)
(* lookup answers with one name or fails.                                     *)

InitHook == \E v \in Variants, a \in {"U1", NoAdmin} : Start(v, a, 0)

NextHook ==
    \/ \E s \in FreeSlots, sigOk \in BOOLEAN :
          /\ variant = "v1" \/ sigOk
          /\ MayFail(sigOk, MaxFaults)
          /\ \E batch \in Batches(evCount, MaxEvents - evCount) :
                Receive(s, batch, sigOk)
    \/ \E s \in Slots, ok \in BOOLEAN :
          MayFail(ok, MaxFaults) /\ ModelReturn(s, ok, PlainReply)
    \/ \E s \in Slots, ok \in BOOLEAN :
          MayFail(ok, MaxFaults) /\ ProfileReturn(s, ok, "Nok")
    \/ \E s \in Slots : NameReturn(s)
    \/ \E s \in Slots, ok \in BOOLEAN : MayFail(ok, MaxFaults) /\ ReplyReturn(s, ok)
    \/ \E s \in Slots, ok \in BOOLEAN : MayFail(ok, MaxFaults) /\ ApologyReturn(s, ok)
    \/ \E s \in Slots, ok \in BOOLEAN : MayFail(ok, MaxFaults) /\ ReportReplyReturn(s, ok)

SpecHook == InitHook /\ [][NextHook]_vars

(* SpecChat: long conversations of one user, two requests in flight; every    *)
(* event is an ordinary text and the profile lookup answers with one name.    *)

InitChat == \E v \in Variants : Start(v, NoAdmin, 0)

ChatBodies(n) == {<<TextEvent("U1", PlainText, n + 1)>>}

NextChat ==
    \/ \E s \in Slots, sigOk \in BOOLEAN : \E batch \in ChatBodies(evCount) :
          evCount + Len(batch) <= MaxChatEvents
              /\ MayFail(sigOk, MaxChatFaults) /\ Receive(s, batch, sigOk)
    \/ \E s \in Slots, ok \in BOOLEAN :
          MayFail(ok, MaxChatFaults) /\ ModelReturn(s, ok, PlainReply)
    \/ \E s \in Slots : ProfileReturn(s, TRUE, "Nok")
    \/ \E s \in Slots : NameReturn(s)
    \/ \E s \in Slots, ok \in BOOLEAN : MayFail(ok, MaxChatFaults) /\ ReplyReturn(s, ok)
    \/ \E s \in Slots, ok \in BOOLEAN : MayFail(ok, MaxChatFaults) /\ ApologyReturn(s, ok)

SpecChat == InitChat /\ [][NextChat]_vars

(* SpecSeq: one user, one request after the other, every text and every reply *)
(* different from all before.                                                 *)

SeqBodies(n) == {<<TextEvent("U1", FreshText(n + 1), n + 1)>>}

NextSeq ==
    \/ \E s \in Solo, sigOk \in BOOLEAN : \E batch \in SeqBodies(evCount) :
          evCount + Len(batch) <= MaxSeqEvents
              /\ MayFail(sigOk, MaxSeqFaults) /\ Receive(s, batch, sigOk)
    \/ \E s \in Solo, ok \in BOOLEAN :
          MayFail(ok, MaxSeqFaults)
              /\ ModelReturn(s, ok, FreshReply(handlers[s].cur.replyToken))
    \/ \E s \in Solo, ok \in BOOLEAN, name \in ProfileNames :
          MayFail(ok, MaxSeqFaults) /\ ProfileReturn(s, ok, name)
    \/ \E s \in Solo : NameReturn(s)
    \/ \E s \in Solo, ok \in BOOLEAN : MayFail(ok, MaxSeqFaults) /\ ReplyReturn(s, ok)
    \/ \E s \in Solo, ok \in BOOLEAN : MayFail(ok, MaxSeqFaults) /\ ApologyReturn(s, ok)

SpecSeq == InitChat /\ [][NextSeq]_vars

(* SpecReport: buildReport alone, called once on a list of entries.           *)

\* an entry of the log: user u, logged at t
EntryOf(u, t) ==
    [timestamp |-> t, userId |-> u,
     displayName |-> IF u = "U1" THEN "Nok" ELSE u,
     userText |-> PlainText, aiReply |-> Truncate(PlainReply, REPLY_CUT_V3)]

RECURSIVE EntryLists(_)
\* the lists of exactly k entries of either user, logged at the first instants
EntryLists(k) ==
    IF k = 0 THEN {<<>>}
    ELSE {Append(l, EntryOf(u, t)) :
             l \in EntryLists(k - 1), u \in Users, t \in StartInstants}

InitReport ==
    /\ Program("UTC", "v3", NoAdmin, 0)
    /\ sharedHistory = TRUE
    /\ split = NoSplit
    /\ \E k \in 0..MaxEntries : \E e \in EntryLists(k) :
          built = [pc |-> "call", entries |-> e, report |-> NoReport]

\* buildReport(filteredLogs, title)
BuildReport ==
    /\ built.pc = "call"
    /\ built' = [built EXCEPT !.pc = "done",
                              !.report = buildReport(built.entries, Title("daily"))]
    /\ UNCHANGED <<variant, sharedHistory, adminId, tz, split, now, chatHistory, logs, nameCache,
                   handlers, timer, evCount, faults, exchanges, logged>>

NextReport == BuildReport

SpecReport == InitReport /\ [][NextReport]_vars

(* SpecSplit: the chunk loop of pushToAdmin alone, run on one text, one turn  *)
(* of the loop per step.                                                      *)

\* k ordinary characters
Fill(k) == [i \in 1..k |-> CH_TEXT]

\* what the texts are made of: the separator line, one character, and blocks
\* that end at the limit or a separator before it
Pieces == {SEPARATOR, Fill(1), Fill(MAX_LEN - SEP_LEN), Fill(MAX_LEN)}

RECURSIVE Texts(_)
\* the texts of exactly k pieces
Texts(k) ==
    IF k = 0 THEN {<<>>} ELSE {t \o p : t \in Texts(k - 1), p \in Pieces}

InitSplit ==
    /\ Program("UTC", "v3", "U1", 0)
    /\ sharedHistory = TRUE
    /\ built = NoBuilt
    /\ \E k \in 1..MaxPieces : \E t \in Texts(k) :
          split = [pc |-> "loop", input |-> t, text |-> t, chunks |-> <<>>,
                   atSeparator |-> <<>>]

\* while (text.length > 4800) { cut; chunks.push(...); text = text.slice(...) }
LoopStep ==
    /\ split.pc = "loop"
    /\ Len(split.text) > MAX_LEN
    /\ split' = [split EXCEPT !.text = LoopTurn(split.text).rest,
                              !.chunks = Append(@, LoopTurn(split.text).chunk),
                              !.atSeparator =
                                  Append(@, LoopTurn(split.text).atSeparator)]
    /\ UNCHANGED <<variant, sharedHistory, adminId, tz, built, now, chatHistory, logs, nameCache,
                   handlers, timer, evCount, faults, exchanges, logged>>

\* the loop ends: chunks.push(text)
LoopExit ==
    /\ split.pc = "loop"
    /\ Len(split.text) <= MAX_LEN
    /\ split' = [split EXCEPT !.pc = "done", !.chunks = Append(@, split.text)]
    /\ UNCHANGED <<variant, sharedHistory, adminId, tz, built, now, chatHistory, logs, nameCache,
                   handlers, timer, evCount, faults, exchanges, logged>>

NextSplit == LoopStep \/ LoopExit

\* the loop is synchronous code: it goes on while it can
SpecSplit == InitSplit /\ [][NextSplit]_vars /\ WF_vars(NextSplit)

(* SpecClock: the scheduler alone, hour by hour over the first days, in every *)
(* zone; no request arrives.                                                  *)

ClockInstants == 0..MaxClock

InitClock ==
    \E z \in Zones, v \in {"v2", "v3"}, a \in {"U1", NoAdmin}, t \in StartInstants :
        StartIn(z, v, a, t) /\ sharedHistory = TRUE

NextClock ==
    \/ TimerFire
    \/ \E ok \in BOOLEAN : MayFail(ok, MaxFaults) /\ PushReturn(ok)
    \/ \E t \in ClockInstants : Tick(t)

SpecClock == InitClock /\ [][NextClock]_vars

---------------------------------------------------------------------------
(* Properties *)

InFlight(s) == handlers[s].pc \notin {"idle", "rejected"}

RECURSIVE Flatten(_)
\* the turns of a sequence of exchanges, in conversational order
Flatten(xs) ==
    IF xs = <<>> THEN <<>>
    ELSE <<Turn("user", Head(xs).user), Turn("model", Head(xs).model)>>
             \o Flatten(Tail(xs))

\* the last n elements of a sequence
LastN(xs, n) == SubSeq(xs, Len(xs) - Min(n, Len(xs)) + 1, Len(xs))

RECURSIVE Twice(_)
\* every element of a sequence, two times in a row
Twice(xs) ==
    IF xs = <<>> THEN <<>> ELSE <<Head(xs), Head(xs)>> \o Twice(Tail(xs))

\* the pairs of turns pushed onto the array of sender u so far, in order: one
\* pair per completed exchange by the handler, and one before it by a session
\* that keeps the array
PairsPushed(u) == IF sharedHistory THEN Twice(exchanges[u]) ELSE exchanges[u]

\* C1: in every state, between any two steps of any requests, no user's stored
\* history is longer than 20 turns.
C1_HistoryBounded ==
    \A u \in DOMAIN chatHistory : Len(chatHistory[u]) <= HISTORY_CAP

\* the history is full, turns have been evicted, and two requests of the user
\* are in flight
C1_Witness ==
    /\ Len(HistoryOf("U1")) = HISTORY_CAP
    /\ 2 * Len(PairsPushed("U1")) > HISTORY_CAP
    /\ \A s \in Slots : InFlight(s) /\ handlers[s].cur.userId = "U1"

\* C2: in every state each user's history has even length, alternates user,
\* model, user, model from a user turn to a model turn, and is the tail of the
\* pairs pushed onto it: turns leave oldest first, a pair at a time.
C2_WholePairs ==
    \A u \in DOMAIN chatHistory :
        LET hist == chatHistory[u]
        IN  /\ Len(hist) % 2 = 0
            /\ \A i \in DOMAIN hist :
                   hist[i].role = IF i % 2 = 1 THEN "user" ELSE "model"
            /\ hist = Flatten(LastN(PairsPushed(u), Len(hist) \div 2))

\* pairs have been evicted while a second request of the same user, whose model
\* call was seeded with an older history, is still waiting for the model
C2_Witness ==
    /\ 2 * Len(PairsPushed("U1")) > HISTORY_CAP
    /\ Len(HistoryOf("U1")) = HISTORY_CAP
    /\ \E s \in Slots :
          /\ handlers[s].pc = "await_model"
          /\ handlers[s].cur.userId = "U1"
          /\ Len(handlers[s].seed) < HISTORY_CAP

\* the turns of the events first..last of SpecSeq, whose texts and replies are
\* all different
TurnsOf(first, last) ==
    Flatten([i \in 1..(last - first + 1) |->
               [user |-> FreshText(first + i - 1), model |-> FreshReply(first + i - 1)]])

\* the exchanges completed in a behaviour of SpecSeq without failure
Completed == IF handlers[1].pc = "await_model" THEN evCount - 1 ELSE evCount

\* C3: when requests are handled one after the other, after k successful
\* exchanges the history is exactly the last min(k, 10) exchanges in order;
\* without a failure these are the exchanges of the events k-9..k (in the
\* versions whose handler reaches the loop over the events).
C3_MostRecentExchanges ==
    /\ HistoryOf("U1") = Flatten(LastN(exchanges["U1"], HISTORY_CAP \div 2))
    /\ Len(HistoryOf("U1")) = 2 * Min(Len(exchanges["U1"]), HISTORY_CAP \div 2)
    /\ (faults = 0 /\ variant # "v1") =>
          /\ Len(exchanges["U1"]) = Completed
          /\ HistoryOf("U1") =
                TurnsOf(Max(1, Completed - (HISTORY_CAP \div 2) + 1), Completed)

\* the turns stored for every user, a missing key read as no turn
Stored == [u \in Senders |-> HistoryOf(u)]

\* C4: a step in which the model call of a request fails sends the fixed apology
\* and changes neither a history nor the log, and so does every later step of
\* that request for the same event.
C4_ModelFailureLeavesState ==
    [][\A s \in Slots :
          (handlers'[s] # handlers[s]
              /\ (handlers[s].result = "error" \/ handlers'[s].result = "error"))
          => /\ Stored' = Stored
             /\ logs' = logs
             /\ exchanges' = exchanges
             /\ handlers'[s].result = "error"
                   => /\ handlers'[s].pc = "await_apology"
                      /\ handlers'[s].out = Msg(Apology)]_vars

\* the model call failed for a user who has a history and a log entry, and the
\* apology is on its way
C4_Witness ==
    \E s \in Slots :
        /\ handlers[s].pc = "await_apology"
        /\ handlers[s].result = "error"
        /\ handlers[s].out = Msg(Apology)
        /\ Len(HistoryOf(handlers[s].cur.userId)) = 2
        /\ Len(logs) = 1

\* C5: after every fire of the daily timer, whether the push succeeded or
\* failed, a timer is armed again: the scheduler never stops.
C5_AlwaysRearmed ==
    variant # "v1" => timer.state \in {"armed", "pushing"}

\* C6: whatever the model call and the replies of an event do, no error leaves
\* the webhook handler, so every event of a body is reached by the loop (in the
\* versions whose handler reaches the loop; index.js 1-101 throws before it).
C6_NoErrorEscapes ==
    variant # "v1" => \A s \in Slots : handlers[s].pc # "rejected"

\* the request that holds a report to send: the sender is the configured admin
SentToAdmin(s) ==
    adminId # NoAdmin /\ handlers[s].cur.userId = adminId

\* C8: a report is only ever on its way to the configured admin; the trigger
\* phrase from anybody else, and from everybody when no admin is configured
\* (also from a source without userId), is an ordinary turn: the model is
\* called with the sender's history.
C8_OnlyAdminGetsReport ==
    \A s \in Slots :
        /\ handlers[s].out.kind = "report" => SentToAdmin(s)
        /\ (InFlight(s) /\ UserTextOf(handlers[s].cur) = TRIGGER_PHRASE
               /\ ~SentToAdmin(s))
           => /\ handlers[s].call = "chat"
              /\ handlers[s].pc # "await_report_reply"
              /\ handlers[s].cur.userId \in DOMAIN chatHistory

\* C9: a text event that follows an image event of the same user in a body
\* calls the model with the image and the text, not with the history.
C9_ImageThenText ==
    \A s \in Slots :
        (InFlight(s) /\ handlers[s].prev.mtype = "image"
            /\ handlers[s].prev.userId = handlers[s].cur.userId
            /\ handlers[s].pc # "await_report_reply")
        => handlers[s].call = "image"

\* the entries appended to the log in the 24 hours before t
LoggedSince(t) == SelectSeq(logged, LAMBDA l : l.at >= t)

\* the time of day as the running version writes it in a block
TimeShown(t) == IF variant = "v3" THEN formatTime(t) ELSE formatTimeV2(t)

\* report r shows the entries w, one block each, in order, and counts them
Shows(r, w) ==
    /\ r.count = Len(w)
    /\ r.empty = (Len(w) = 0)
    /\ Len(r.blocks) = Len(w)
    /\ \A i \in DOMAIN w :
          /\ r.blocks[i].time = TimeShown(w[i].at)
          /\ r.blocks[i].userText = w[i].entry.userText
          /\ r.blocks[i].aiReply = w[i].entry.aiReply

\* request s starts on an admin command in this step
StartsAdminCommand(s) ==
    handlers'[s] # handlers[s] /\ handlers'[s].pc = "await_report_reply"

\* the admin command calls no model and writes neither the histories nor the log
Bypasses(s) ==
    /\ handlers'[s].call = "none"
    /\ chatHistory' = chatHistory
    /\ exchanges' = exchanges
    /\ logs' = logs
    /\ logged' = logged

\* C7: the admin command bypasses the model, writes neither the histories nor
\* the log, and replies with a report of exactly the entries logged in the last
\* 24 hours.
C7_ReportOfLast24h ==
    [][\A s \in Slots :
          StartsAdminCommand(s)
          => /\ Bypasses(s)
             /\ handlers'[s].out.kind = "report"
             /\ Shows(handlers'[s].out.report, LoggedSince(now - DAY))]_vars

\* C10: right after every append to the log of v3 no entry is older than 7
\* days, and the entry appended is the last one.
C10_NoOldEntryAfterAppend ==
    [][(variant = "v3" /\ logged' # logged)
          => /\ \A i \in DOMAIN logs' : logs'[i].timestamp >= now' - RETENTION
             /\ Len(logs') >= 1
             /\ logs'[Len(logs')] = logged'[Len(logged')].entry
             /\ logged'[Len(logged')].at = now']_vars

\* an entry older than 7 days was at the front of the log and the append that
\* just happened removed it
C10_Witness ==
    /\ variant = "v3"
    /\ handlers[1].pc = "await_reply"
    /\ Len(logged) = 2
    /\ logged[1].at < now - RETENTION
    /\ Len(logs) = 1
    /\ logs[1].timestamp = now

---------------------------------------------------------------------------
(* The entries of a report *)

\* the positions of the log whose entry is not older than t
Qualifying(log, t) == {i \in DOMAIN log : log[i].timestamp >= t}

\* the number of positions of idx up to i
Rank(idx, i) == Cardinality({j \in idx : j <= i})

\* blocks are the entries of the log not older than t, every one of them, no
\* other and in the order of the log
IsSelection(blocks, log, t) ==
    /\ Len(blocks) = Cardinality(Qualifying(log, t))
    /\ \A i \in Qualifying(log, t) :
          LET b == blocks[Rank(Qualifying(log, t), i)]
          IN  /\ b.time = formatTime(log[i].timestamp)
              /\ b.displayName = log[i].displayName
              /\ b.userText = log[i].userText
              /\ b.aiReply = log[i].aiReply

\* the timer callback starts in this step
TimerFires == timer.state = "armed" /\ timer' # timer

\* C11: in index.js the report of the admin command and the report of the timer
\* callback are built from exactly the log entries with timestamp >= now - 24
\* hours, in the order of the log, and building them leaves the log as it is.
C11_ExactlyTheEntriesSince ==
    [][variant = "v3"
          => /\ \A s \in Slots :
                   StartsAdminCommand(s)
                   => /\ IsSelection(handlers'[s].out.report.blocks, logs, now - DAY)
                      /\ handlers'[s].out.report.count
                            = Cardinality(Qualifying(logs, now - DAY))
                      /\ logs' = logs
             /\ TimerFires
                   => /\ IsSelection(timer'.report.blocks, logs, now - DAY)
                      /\ timer'.report.count = Cardinality(Qualifying(logs, now - DAY))
                      /\ logs' = logs]_vars

\* the timer callback has just built a report that holds the entry logged
\* exactly 24 hours ago and leaves out the older entry before it
C11_Witness ==
    /\ variant = "v3"
    /\ timer.armedAt = now \/ timer.state = "pushing"
    /\ timer.report.title = Title("daily")
    /\ Len(logs) = 2
    /\ logs[1].timestamp < now - DAY
    /\ logs[2].timestamp = now - DAY
    /\ timer.report.count = 1
    /\ timer.report.blocks[1].time = formatTime(now - DAY)

---------------------------------------------------------------------------
(* buildReport *)

\* the users of the entries, each counted where it occurs first
FirstOccurrences(entries) ==
    {i \in DOMAIN entries : \A j \in 1..(i - 1) : entries[j].userId # entries[i].userId}

\* the number of separator lines in a text
SeparatorCount(text) ==
    Cardinality({i \in 0..Len(text) : IsSeparatorAt(text, i)})

\* C12: buildReport of no entry is the title and the no-conversation notice;
\* of some entries it is the title, a header with the number of distinct users
\* and the number of entries, and one block per entry in the order given.
C12_ReportCounts ==
    built.pc = "done"
    => LET r == built.report
           e == built.entries
       IN  /\ r.title = Title("daily")
           /\ e = <<>>
                 => /\ r.empty
                    /\ Render(r) = TitleChars(r.title) \o <<NL, NL>> \o NOTICE
           /\ e # <<>>
                 => /\ ~r.empty
                    /\ r.userCount = Cardinality(FirstOccurrences(e))
                    /\ r.count = Len(e)
                    /\ Len(r.blocks) = Len(e)
                    /\ \A i \in DOMAIN e :
                          /\ r.blocks[i].time = formatTime(e[i].timestamp)
                          /\ r.blocks[i].displayName = e[i].displayName
                          /\ r.blocks[i].userText = e[i].userText
                          /\ r.blocks[i].aiReply = e[i].aiReply
                    /\ SeparatorCount(Render(r)) = Len(e) - 1
                    /\ LET header == TitleChars(r.title) \o <<NL>> \o HEAD_USERS
                                        \o Digits(Cardinality(FirstOccurrences(e)))
                                        \o HEAD_MID \o Digits(Len(e))
                                        \o HEAD_END \o <<NL, NL>>
                       IN  Slice(Render(r), Len(header)) = header

\* a report of three entries of two users, the first user twice
C12_Witness ==
    /\ built.pc = "done"
    /\ Len(built.entries) = 3
    /\ built.entries[1].userId = built.entries[3].userId
    /\ built.entries[1].userId # built.entries[2].userId
    /\ built.report.userCount = 2
    /\ built.report.count = 3

---------------------------------------------------------------------------
(* The chunk loop *)

\* the positions from lo to the limit at which a separator line starts
SeparatorsInRange(text, lo) ==
    {i \in lo..MAX_LEN : IsSeparatorAt(text, i)}

Greatest(set) == CHOOSE i \in set : \A k \in set : k <= i

\* a turn of the loop takes place in this step
TakesTurn ==
    split.pc = "loop" /\ Len(split'.chunks) = Len(split.chunks) + 1
        /\ Len(split.text) > MAX_LEN

\* the turn of this step cuts at the last separator that starts at one of the
\* positions lo..4800, and at the limit when there is none
CutsAtLastSeparator(lo) ==
    LET seps  == SeparatorsInRange(split.text, lo)
        chunk == split'.chunks[Len(split'.chunks)]
    IN  IF seps # {}
        THEN /\ chunk = SubSeq(split.text, 1, Greatest(seps))
             /\ split'.text = DropFirst(split.text, Greatest(seps) + SEP_LEN)
        ELSE /\ chunk = SubSeq(split.text, 1, MAX_LEN)
             /\ split'.text = DropFirst(split.text, MAX_LEN)

ChunksBounded == \A i \in DOMAIN split.chunks : Len(split.chunks[i]) <= MAX_LEN

\* C13, as claimed: the loop ends, no chunk is longer than 4800, and a turn cuts
\* at the last separator line that starts at a position 0..4800 of the text
\* left whenever there is one.
C13_CutAtAnySeparator ==
    /\ []ChunksBounded
    /\ <>(split.pc = "done")
    /\ [][TakesTurn => CutsAtLastSeparator(0)]_vars

\* C13, amended: the loop ends, no chunk is longer than 4800, every turn makes
\* the text left shorter, and a turn cuts at the last separator line that
\* starts at a position 1..4800 of the text left; when there is none, and so
\* when the only one starts at position 0, it cuts at 4800.
C13_CutAtSeparatorAfterStart ==
    /\ []ChunksBounded
    /\ <>(split.pc = "done")
    /\ [][TakesTurn => /\ CutsAtLastSeparator(1)
                       /\ Len(split'.text) < Len(split.text)]_vars

\* a text was cut at a separator line that starts exactly at position 4800, and
\* both chunks are as long as the limit allows
C13_Witness ==
    /\ split.pc = "done"
    /\ Len(split.chunks) = 2
    /\ split.atSeparator = <<TRUE>>
    /\ Len(split.chunks[1]) = MAX_LEN
    /\ Len(split.chunks[2]) = MAX_LEN
    /\ IsSeparatorAt(split.input, MAX_LEN)

RECURSIVE Rejoin(_, _)
\* the chunks one after the other, the separator line put back after every
\* chunk that was cut at one
Rejoin(chunks, atSeparator) ==
    IF chunks = <<>> THEN <<>>
    ELSE Head(chunks)
            \o (IF atSeparator # <<>> /\ Head(atSeparator) THEN SEPARATOR ELSE <<>>)
            \o Rejoin(Tail(chunks),
                      IF atSeparator = <<>> THEN <<>> ELSE Tail(atSeparator))

\* C14: the chunks, with the separator line put back where a turn cut at one
\* and nothing where it cut at the limit, followed by the text still left, are
\* the text pushToAdmin was given; at the end the chunks alone are.
C14_RoundTrip ==
    /\ split.pc = "loop"
          => Rejoin(split.chunks, split.atSeparator) \o split.text = split.input
    /\ split.pc = "done"
          => /\ Rejoin(split.chunks, split.atSeparator) = split.input
             /\ Len(split.atSeparator) = Len(split.chunks) - 1
             /\ split.chunks = ChunkLoop(split.input)

\* a text was cut once at the limit and once at a separator line
C14_Witness ==
    /\ split.pc = "done"
    /\ Len(split.chunks) = 3
    /\ split.atSeparator = <<FALSE, TRUE>>
    /\ Len(split.input) > 2 * MAX_LEN

---------------------------------------------------------------------------
(* The scheduler *)

\* the occurrences of 01:00 UTC
IsTriggerTime(t) == t % DAY = TRIGGER_HOUR

\* C15: whenever a timer is armed, its trigger instant is the first 01:00 UTC
\* strictly after the instant of arming: the delay is above 0 and at most 24
\* hours (so that fires on time are one day apart).
C15_NextOccurrence ==
    timer.state = "armed"
    => /\ IsTriggerTime(timer.next)
       /\ timer.next > timer.armedAt
       /\ timer.next - timer.armedAt <= DAY
       /\ \A t \in (timer.armedAt + 1)..(timer.next - 1) : ~IsTriggerTime(t)

\* C16: in every state every entry of the log of index.js is at most 7 days
\* old.
C16_RetentionAlways ==
    variant = "v3" => \A i \in DOMAIN logs : logs[i].timestamp >= now - RETENTION

---------------------------------------------------------------------------
(* Requests that run together *)

\* request s appends an exchange to the history of its user in this step
Appends(s) ==
    /\ handlers[s].pc = "await_model"
    /\ handlers'[s].pc # "await_model"
    /\ exchanges'[handlers[s].cur.userId] # exchanges[handlers[s].cur.userId]

\* C17: when a request appends an exchange, the history stored for the user
\* just before is the history the model call of that request was seeded with.
C17_AppendOnSeed ==
    [][\A s \in Slots :
          Appends(s) => HistoryOf(handlers[s].cur.userId) = handlers[s].seed]_vars

\* the profile lookup of request s is answered in this step and the answer is
\* stored in the cache
StoresName(s) ==
    /\ handlers[s].pc = "await_profile"
    /\ handlers'[s].pc # "await_profile"
    /\ faults' = faults

\* the profile lookup of request s fails in this step
LookupFails(s) ==
    /\ handlers[s].pc = "await_profile"
    /\ handlers'[s].pc # "await_profile"
    /\ faults' # faults

\* C18: a key of the display-name cache is written once: a key that is present
\* stays, keeps its value and is not written again, also when two requests of
\* an uncached user look the profile up together; a failed lookup gives the
\* user's identifier.
C18_CacheWriteOnce ==
    [][/\ \A u \in DOMAIN nameCache :
             /\ u \in DOMAIN nameCache'
             /\ nameCache'[u] = nameCache[u]
             /\ \A s \in Slots : StoresName(s) => handlers[s].cur.userId # u
       /\ \A s \in Slots :
             LookupFails(s) => handlers'[s].displayName = handlers[s].cur.userId]_vars

---------------------------------------------------------------------------
(* One timer *)

\* scheduleDailyReport() is called in this step
Rearms == timer' # timer /\ timer'.state = "armed"

\* C19: never more than one timeout is outstanding, none while the callback
\* runs, and every call of scheduleDailyReport() after a fire arms the one
\* timeout for a trigger instant later than the one that fired.
C19_OneTimer ==
    [][/\ timer.timeouts <= 1
       /\ timer'.timeouts <= 1
       /\ timer'.state \in {"pushing", "stopped"} => timer'.timeouts = 0
       /\ Rearms => /\ timer'.timeouts = 1
                    /\ timer'.next > timer.next
                    /\ timer'.next > now]_vars

\* the callback ran on the second day and the timer is armed again, for the
\* third day, while a request that was logged waits for its reply
C19_Witness ==
    /\ adminId # NoAdmin
    /\ timer.state = "armed"
    /\ timer.timeouts = 1
    /\ timer.armedAt = DAY + TRIGGER_HOUR
    /\ timer.next = 2 * DAY + TRIGGER_HOUR
    /\ handlers[1].pc = "await_reply"
    /\ Len(logged) >= 1

\* C20: in part_000, when the timer callback empties dailyLogs, the report it
\* built holds every entry that the log held.
C20_ReportedBeforeCleared ==
    [][(variant = "v2" /\ logs # <<>> /\ logs' = <<>>)
          => /\ timer'.report.count = Len(logs)
             /\ Len(timer'.report.blocks) = Len(logs)]_vars

====
